---- MODULE Spec2Model ----
(***************************************************************************)
(* Model of the security-dast scripts (src/scripts/*.py).                  *)
(*                                                                         *)
(* Every script is one synchronous process: it reads its arguments and its *)
(* input files, computes, writes its output files and exits.  A behaviour  *)
(* of the model is one run of one entry point:                             *)
(*   entry      which script or function runs                              *)
(*   args       its command line arguments                                 *)
(*   env        the world it reads: input files, directories, the answer   *)
(*              of the policy service                                      *)
(*   mem        its local variables                                        *)
(*   out        the files it has written so far (path -> content)          *)
(*   pc         its position                                               *)
(*   exit_code  -1 while it runs, then the process exit status             *)
(*   error      the exception or fatal message that ended it ("" if none)  *)
(*                                                                         *)
(* Python values: a dict is a function whose DOMAIN is the set of keys     *)
(* present; a list is a sequence; a file is << >> when the path does not   *)
(* exist and <<content>> when it does.                                     *)
(***************************************************************************)
EXTENDS Integers, Sequences, FiniteSets, TLC

VARIABLES entry, args, env, mem, out, pc, exit_code, error

vars == <<entry, args, env, mem, out, pc, exit_code, error>>

----------------------------------------------------------------------------
(* Bounds of the model *)

MaxScore == 3
MaxThreshold == 2
MaxRisk == 2
MaxSites == 2
MaxAlerts == 1
MaxLines == 3
MaxListLen == 2
MaxFindings == 3
MaxLimit == 2

----------------------------------------------------------------------------
(* Python helpers *)

\* dict.get(key, default)
DictGet(d, key, default) == IF key \in DOMAIN d THEN d[key] ELSE default

\* the restriction of a dict to the keys in S
Restrict(d, S) == [k \in S |-> d[k]]

\* every dict that holds a subset of the keys of one of the dicts in Full
Partial(Full) == UNION {{Restrict(d, S) : S \in SUBSET DOMAIN d} : d \in Full}

NoFile == << >>
File(content) == <<content>>
Exists(f) == f # NoFile
Content(f) == f[1]

EmptyDict == << >>

\* Python's None, where a string is expected: no argument or field of the
\* model takes this value
PyNone == "<None>"

\* the result of a call: the exception it raised, or the value it returned
Raised(exc) == [exc |-> exc, value |-> EmptyDict]
Returned(v) == [exc |-> "", value |-> v]

\* x or y
Truthy(x) == x \notin {PyNone, ""}
Or(x, y) == IF Truthy(x) THEN x ELSE y

\* str.upper() on the strings of the model; a string not listed here is
\* already in upper case
UpperCase ==
    ("High" :> "HIGH") @@ ("Medium" :> "MEDIUM") @@ ("Low" :> "LOW") @@
    ("Informational" :> "INFORMATIONAL") @@ ("info" :> "INFO") @@
    ("high" :> "HIGH") @@ ("critical" :> "CRITICAL") @@ ("unknown" :> "UNKNOWN")
Upper(str) == DictGet(UpperCase, str, str)

\* str.lower() on the scanner names of the model
LowerCase == ("ZAP" :> "zap") @@ ("Nuclei" :> "nuclei") @@ ("Unknown" :> "unknown")
Lower(str) == DictGet(LowerCase, str, str)

\* str(x), as an f-string formats a string or None
Str(x) == IF x = PyNone THEN "None" ELSE x

\* sep.join(items)
RECURSIVE Join(_, _)
Join(items, sep) ==
    IF items = << >> THEN ""
    ELSE IF Len(items) = 1 THEN items[1]
    ELSE items[1] \o sep \o Join(Tail(items), sep)

\* (a variant that keeps every item)
FromKeysKeepAll(items, seen) == items

\* list(dict.fromkeys(items)): the distinct items, in first-seen order
RECURSIVE FromKeys(_, _)
FromKeys(items, seen) ==
    IF items = << >> THEN << >>
    ELSE IF Head(items) \in seen THEN FromKeys(Tail(items), seen)
    ELSE <<Head(items)>> \o FromKeys(Tail(items), seen \cup {Head(items)})

\* text.rstrip("/")
RECURSIVE RStripSlash(_)
RStripSlash(text) ==
    IF Len(text) > 0 /\ SubSeq(text, Len(text), Len(text)) = "/"
      THEN RStripSlash(SubSeq(text, 1, Len(text) - 1))
      ELSE text

\* items[:n] for a list: a negative n counts from the end
SliceTo(items, n) ==
    IF n >= Len(items) THEN items
    ELSE IF n >= 0 THEN SubSeq(items, 1, n)
    ELSE IF Len(items) + n > 0 THEN SubSeq(items, 1, Len(items) + n)
    ELSE << >>

\* text[:n]
Prefix(text, n) == IF Len(text) <= n THEN text ELSE SubSeq(text, 1, n)

\* the sum of the values of a dict of numbers
RECURSIVE SumValues(_)
SumValues(d) ==
    IF DOMAIN d = {} THEN 0
    ELSE LET k == CHOOSE x \in DOMAIN d : TRUE
         IN  d[k] + SumValues(Restrict(d, DOMAIN d \ {k}))

\* the sequences over S of length at most n
SeqUpTo(S, n) == UNION {[1..k -> S] : k \in 0..n}

\* the concatenation of a sequence of sequences
RECURSIVE Flatten(_)
Flatten(ss) == IF ss = << >> THEN << >> ELSE Head(ss) \o Flatten(Tail(ss))

\* the first exception among a sequence of results ("" when none raised)
RECURSIVE FirstException(_)
FirstException(rs) ==
    IF rs = << >> THEN ""
    ELSE IF Head(rs).exc # "" THEN Head(rs).exc
    ELSE FirstException(Tail(rs))

Running == -1

Finish(code, msg) ==
    /\ pc' = "done"
    /\ exit_code' = code
    /\ error' = msg

----------------------------------------------------------------------------
(* regression-guard.py *)

\* the evaluation documents regression-guard reads: risk_score may be absent
ScoreDocs == Partial([risk_score : 0..MaxScore])

ScoreFiles == {NoFile} \cup {File(d) : d \in ScoreDocs}

Thresholds == (0 - MaxThreshold)..MaxThreshold

InitRegressionGuard ==
    /\ entry = "regression-guard"
    /\ args \in [threshold : Thresholds]
    /\ env \in [current : ScoreFiles, previous : ScoreFiles]
    /\ mem = EmptyDict
    /\ out = EmptyDict
    /\ pc = "start"
    /\ exit_code = Running
    /\ error = ""

severity_delta(current, previous) ==
    DictGet(current, "risk_score", 0) - DictGet(previous, "risk_score", 0)

ExceedsThresholdOrEqual(delta, threshold) == delta >= threshold

ExceedsThreshold(delta, threshold) == delta > threshold

\* main() of regression-guard.py
RegressionGuardMain ==
    /\ entry = "regression-guard"
    /\ pc = "start"
    /\ IF ~Exists(env.current)
         THEN \* load_eval(args.current) raises, uncaught
              /\ Finish(1, "FileNotFoundError")
              /\ mem' = mem
         ELSE IF ~Exists(env.previous)
         THEN \* except FileNotFoundError: print, return
              /\ Finish(0, "")
              /\ mem' = [current |-> Content(env.current)]
         ELSE LET current == Content(env.current)
                  previous == Content(env.previous)
                  delta == severity_delta(current, previous)
              IN  /\ mem' = [current |-> current, previous |-> previous,
                             severity_delta |-> delta]
                  /\ IF ExceedsThreshold(delta, args.threshold)
                       THEN Finish(1, "Risk score increased")
                       ELSE Finish(0, "")
    /\ UNCHANGED <<entry, args, env, out>>

----------------------------------------------------------------------------
(* opa_utils.py *)

\* where ensure_opa_binary finds the executable: the OPA_BINARY override, the
\* PATH, the cache directory, a download, or nowhere (the download fails)
OpaSources == {"OPA_BINARY", "PATH", "cache", "download", "none"}

ensure_opa_binary(source) ==
    IF source = "none" THEN Raised("URLError") ELSE Returned(source)

\* lists of at most one element: run_opa reads element 0 only
ListOfAtMostOne(S) == {<< >>} \cup {<<x>> : x \in S}

\* the answers of `opa eval`: a non-zero exit, or an exit 0 with stdout empty,
\* not JSON, or a JSON object with any layer of
\* {"result": [{"expressions": [{"value": verdict}]}]} missing or empty
OpaExpressions(Verdicts) == {EmptyDict} \cup {[value |-> v] : v \in Verdicts}
OpaResults(Verdicts) ==
    {EmptyDict} \cup
    {[expressions |-> es] : es \in ListOfAtMostOne(OpaExpressions(Verdicts))}
OpaDocs(Verdicts) ==
    {EmptyDict} \cup
    {[result |-> rs] : rs \in ListOfAtMostOne(OpaResults(Verdicts))}
OpaResponses(Verdicts) ==
    {[returncode |-> 1, stdout |-> [t |-> "empty"]]} \cup
    {[returncode |-> 0, stdout |-> [t |-> "empty"]],
     [returncode |-> 0, stdout |-> [t |-> "garbage"]]} \cup
    {[returncode |-> 0, stdout |-> [t |-> "json", v |-> d]] : d \in OpaDocs(Verdicts)}

run_opa(response) ==
    IF response.returncode # 0 THEN Raised("CalledProcessError")
    ELSE IF response.stdout.t = "empty"
      THEN Raised("RuntimeError: OPA did not return output")
    ELSE IF response.stdout.t = "garbage" THEN Raised("JSONDecodeError")
    ELSE LET parsed == response.stdout.v
             expressions == DictGet(parsed, "result", << >>)
         IN  IF expressions = << >>
               THEN Raised("RuntimeError: OPA did not return an evaluation result")
               ELSE LET exprs == DictGet(expressions[1], "expressions", << >>)
                    IN  IF exprs = << >>
                          THEN Raised("RuntimeError: OPA response is missing expressions")
                          ELSE Returned(DictGet(exprs[1], "value", EmptyDict))

----------------------------------------------------------------------------
(* policy-health.py *)

Statuses == {"PASS", "WARN", "FAIL", "ERROR"}
ExpectedStatuses == {"PASS", "WARN", "FAIL"}

HealthVerdicts == Partial([status : Statuses, risk_score : 0..MaxScore])

InitPolicyHealth ==
    /\ entry = "policy-health"
    /\ args \in [expected_status : ExpectedStatuses, max_risk : 0..MaxRisk]
    /\ env \in [policy_dir : BOOLEAN, input : BOOLEAN, opa : OpaSources,
                response : OpaResponses(HealthVerdicts)]
    /\ mem = EmptyDict
    /\ out = EmptyDict
    /\ pc = "start"
    /\ exit_code = Running
    /\ error = ""

Exit(code, msg, locals) == [code |-> code, error |-> msg, mem |-> locals]

RiskExceededOrEqual(risk, max_risk) == risk >= max_risk

RiskExceeded(risk, max_risk) == risk > max_risk

policy_health(a, e) ==
    IF ~e.policy_dir THEN Exit(1, "Policy directory does not exist", EmptyDict)
    ELSE IF ~e.input THEN Exit(1, "Canonical input not found", EmptyDict)
    ELSE LET opa_binary == ensure_opa_binary(e.opa) IN
    IF opa_binary.exc # "" THEN Exit(1, opa_binary.exc, EmptyDict)
    ELSE LET evaluation == run_opa(e.response) IN
    IF evaluation.exc # "" THEN Exit(1, evaluation.exc, EmptyDict)
    ELSE LET status == DictGet(evaluation.value, "status", PyNone)
             risk == DictGet(evaluation.value, "risk_score", 0)
             locals == [evaluation |-> evaluation.value, status |-> status,
                        risk |-> risk]
         IN  IF status # a.expected_status
               THEN Exit(1, "Unexpected policy status", locals)
             ELSE IF RiskExceeded(risk, a.max_risk)
               THEN Exit(1, "Risk score exceeded max allowed", locals)
             ELSE Exit(0, "", locals)

\* main() of policy-health.py
PolicyHealthMain ==
    /\ entry = "policy-health"
    /\ pc = "start"
    /\ LET r == policy_health(args, env)
       IN  Finish(r.code, r.error) /\ mem' = r.mem
    /\ UNCHANGED <<entry, args, env, out>>

----------------------------------------------------------------------------
(* risk-evaluator.py: the finding normalizers *)

\* a text is the sequence of its whitespace-delimited tokens (str.split())
RiskDescs == {<<"High", "(Medium)">>, <<"Informational", "(Low)">>, << >>}

ZapInstanceLists == {<< >>, <<[uri |-> "https://app/login"]>>}

ZapAlerts == Partial([riskdesc : RiskDescs, instances : ZapInstanceLists])

ZapSites == Partial([alerts : SeqUpTo(ZapAlerts, MaxAlerts)])

ZapDocs == Partial([site : SeqUpTo(ZapSites, MaxSites)])

\* a report file is missing, or holds no text, or text that is no JSON, or a
\* JSON document
ZapReports(Docs) ==
    {NoFile, File([t |-> "empty"]), File([t |-> "garbage"])} \cup
    {File([t |-> "json", v |-> d]) : d \in Docs}

\* alert.get("riskdesc", "INFO").split()[0].upper()
ZapSeverity(alert) ==
    LET tokens == DictGet(alert, "riskdesc", <<"INFO">>)
    IN  IF tokens = << >> THEN Raised("IndexError") ELSE Returned(Upper(tokens[1]))

\* the body of the loop over the alerts of a site
ZapFinding(alert) ==
    LET severity == ZapSeverity(alert)
        instances == DictGet(alert, "instances", << >>)
        first_instance == IF instances # << >> THEN instances[1] ELSE EmptyDict
        location == Or(DictGet(first_instance, "uri", PyNone),
                       DictGet(first_instance, "requestHeader", PyNone))
    IN  IF severity.exc # "" THEN severity
        ELSE Returned([source |-> "ZAP",
                       name |-> DictGet(alert, "name", "Unknown"),
                       severity |-> severity.value,
                       description |-> DictGet(alert, "desc", ""),
                       solution |-> DictGet(alert, "solution", ""),
                       instances |-> Len(instances),
                       location |-> Or(location, "Unknown"),
                       rule_id |-> Or(DictGet(alert, "pluginId", PyNone),
                                      DictGet(alert, "pluginid", PyNone)),
                       confidence |-> DictGet(alert, "confidence", PyNone),
                       scanner |-> "ZAP"])

parse_zap_report(report) ==
    IF ~Exists(report) THEN Returned(<< >>)
    ELSE IF Content(report).t # "json" THEN Raised("JSONDecodeError")
    ELSE LET data == Content(report).v
             sites == DictGet(data, "site", << >>)
             alerts == Flatten([i \in 1..Len(sites) |->
                                   DictGet(sites[i], "alerts", << >>)])
             results == [i \in 1..Len(alerts) |-> ZapFinding(alerts[i])]
         IN  IF FirstException(results) # ""
               THEN Raised(FirstException(results))
               ELSE Returned([i \in 1..Len(results) |-> results[i].value])

\* JSON values, tagged with their Python type
JsonObject(d) == [t |-> "dict", dict |-> d]
JsonNumber(n) == [t |-> "int", int |-> n]
JsonList(l) == [t |-> "list", list |-> l]

NucleiDicts ==
    { EmptyDict,
      ("info" :> [severity |-> "high"]) @@ ("matched-at" :> "https://app/admin"),
      [info |-> [severity |-> "unknown"], host |-> "app"],
      [info |-> [reference |-> << >>]],
      [info |-> [reference |-> <<"https://ref">>]],
      [info |-> [severity |-> "critical", reference |-> << >>], host |-> "app"] }

NucleiListElements ==
    { JsonNumber(5),
      JsonObject([info |-> [severity |-> "unknown"], host |-> "app"]),
      JsonObject(("info" :> [severity |-> "high"]) @@
                 ("matched-at" :> "https://app/admin")) }

NucleiValues ==
    {JsonObject(d) : d \in NucleiDicts} \cup {JsonNumber(5)} \cup
    {JsonList(l) : l \in SeqUpTo(NucleiListElements, MaxListLen)}

\* a line of a report: blank, text that is no JSON (and no fragment of a
\* JSON document that spans lines), or one JSON value
BlankLine == [t |-> "blank"]
GarbageLine == [t |-> "garbage"]
NucleiLines == {BlankLine, GarbageLine} \cup NucleiValues

NucleiReports == {NoFile} \cup {File(ls) : ls \in SeqUpTo(NucleiLines, MaxLines)}

IsJson(line) == line.t \in {"dict", "int", "list"}

\* str.strip() on a text: its lines without the leading and trailing blank ones
RECURSIVE StripLeading(_)
StripLeading(ls) ==
    IF ls # << >> /\ Head(ls) = BlankLine THEN StripLeading(Tail(ls)) ELSE ls
RECURSIVE StripTrailing(_)
StripTrailing(ls) ==
    IF ls # << >> /\ ls[Len(ls)] = BlankLine
      THEN StripTrailing(SubSeq(ls, 1, Len(ls) - 1)) ELSE ls
Strip(ls) == StripTrailing(StripLeading(ls))

\* json.loads(raw): the text is one JSON value exactly when it is one line
\* holding one
JsonLoads(raw) ==
    IF Len(raw) = 1 /\ IsJson(raw[1]) THEN Returned(raw[1]) ELSE Raised("JSONDecodeError")

\* the fallback loop over the lines of the file
ParseLines(ls) == SelectSeq(ls, IsJson)

\* the location of a template-scanner entry:
\* entry.get("matched-at") or entry.get("host") or info.get("reference", [None])[0]
NucleiLocation(nuclei_entry, info) ==
    LET matched == DictGet(nuclei_entry, "matched-at", PyNone)
        host == DictGet(nuclei_entry, "host", PyNone)
        reference == DictGet(info, "reference", <<PyNone>>)
    IN  IF Truthy(matched) THEN Returned(matched)
        ELSE IF Truthy(host) THEN Returned(host)
        ELSE IF reference = << >> THEN Raised("IndexError")
        ELSE Returned(reference[1])

\* the body of the loop over the entries, for an entry that is a dict
NucleiFinding(nuclei_entry) ==
    LET info == DictGet(nuclei_entry, "info", EmptyDict)
        severity == Upper(DictGet(info, "severity", "info"))
        location == NucleiLocation(nuclei_entry, info)
    IN  IF location.exc # "" THEN location
        ELSE Returned([source |-> "Nuclei",
                       name |-> DictGet(info, "name", "Unknown"),
                       severity |-> severity,
                       description |-> DictGet(info, "description", ""),
                       solution |-> DictGet(info, "remediation", "Review and patch"),
                       matched_at |-> DictGet(nuclei_entry, "matched-at", ""),
                       location |-> Or(location.value, "Unknown"),
                       template_id |-> Or(DictGet(info, "id", PyNone),
                                          DictGet(nuclei_entry, "template-id", PyNone)),
                       scanner |-> "Nuclei"])

IsDict(value) == value.t = "dict"

parse_nuclei_report(report) ==
    IF ~Exists(report) THEN Returned(<< >>)
    ELSE LET raw == Strip(Content(report)) IN
    IF raw = << >> THEN Returned(<< >>)
    ELSE LET payload == JsonLoads(raw)
             entries == IF payload.exc # "" THEN ParseLines(Content(report))
                        ELSE IF payload.value.t = "list" THEN payload.value.list
                        ELSE <<payload.value>>
             dicts == SelectSeq(entries, IsDict)
             results == [i \in 1..Len(dicts) |-> NucleiFinding(dicts[i].dict)]
         IN  IF FirstException(results) # ""
               THEN Raised(FirstException(results))
               ELSE Returned([i \in 1..Len(results) |-> results[i].value])

InitParseZapReport ==
    /\ entry = "parse_zap_report"
    /\ args = EmptyDict
    /\ env \in [report : ZapReports(ZapDocs)]
    /\ mem = EmptyDict
    /\ out = EmptyDict
    /\ pc = "start"
    /\ exit_code = Running
    /\ error = ""

InitParseNucleiReport ==
    /\ entry = "parse_nuclei_report"
    /\ args = EmptyDict
    /\ env \in [report : NucleiReports]
    /\ mem = EmptyDict
    /\ out = EmptyDict
    /\ pc = "start"
    /\ exit_code = Running
    /\ error = ""

\* a call of parse_zap_report
ParseZapReport ==
    /\ entry = "parse_zap_report"
    /\ pc = "start"
    /\ LET r == parse_zap_report(env.report)
       IN  /\ Finish(IF r.exc # "" THEN 1 ELSE 0, r.exc)
           /\ mem' = IF r.exc # "" THEN mem ELSE [findings |-> r.value]
    /\ UNCHANGED <<entry, args, env, out>>

\* a call of parse_nuclei_report
ParseNucleiReport ==
    /\ entry = "parse_nuclei_report"
    /\ pc = "start"
    /\ LET r == parse_nuclei_report(env.report)
       IN  /\ Finish(IF r.exc # "" THEN 1 ELSE 0, r.exc)
           /\ mem' = IF r.exc # "" THEN mem ELSE [findings |-> r.value]
    /\ UNCHANGED <<entry, args, env, out>>

InitNormalizers == InitParseZapReport \/ InitParseNucleiReport

NextNormalizers == ParseZapReport \/ ParseNucleiReport

SpecNormalizers == InitNormalizers /\ [][NextNormalizers]_vars

----------------------------------------------------------------------------
(* risk-evaluator.py: main *)

ZapDocHigh ==
    [site |-> <<[alerts |-> <<[riskdesc |-> <<"High", "(Medium)">>,
                               instances |-> <<[uri |-> "https://app/login"]>>]>>]>>]

ZapDocInformational ==
    [site |-> <<[alerts |-> <<[riskdesc |-> <<"Informational", "(Low)">>]>>]>>]

EvaluatorZapReports ==
    {NoFile, File([t |-> "empty"])} \cup
    {File([t |-> "json", v |-> d]) : d \in {ZapDocHigh, ZapDocInformational}}

EvaluatorNucleiReports ==
    { NoFile,
      File(<<JsonObject([info |-> [severity |-> "unknown"], host |-> "app"])>>),
      File(<<GarbageLine, JsonObject([info |-> [reference |-> << >>]])>>) }

\* the severity_counts a policy answers: all five levels, or some of them
SeverityCounts ==
    { [CRITICAL |-> 0, HIGH |-> 1, MEDIUM |-> 0, LOW |-> 0, INFO |-> 0],
      [HIGH |-> 1] }

\* the verdicts of the policy service; any field may be absent
EvaluatorVerdicts ==
    Partial([status : {"PASS", "FAIL"}, risk_score : {0, MaxScore},
             severity_counts : SeverityCounts, recommendations : {<<"Fix X">>}])

InitRiskEvaluator ==
    /\ entry = "risk-evaluator"
    /\ args = [app_name |-> "app", output |-> "reports/evaluation.json",
               policy_dir |-> "policies"]
    /\ env \in [zap_report : EvaluatorZapReports,
                nuclei_report : EvaluatorNucleiReports,
                policy_dir : BOOLEAN, opa : OpaSources,
                response : OpaResponses(EvaluatorVerdicts)]
    /\ mem = EmptyDict
    /\ out = EmptyDict
    /\ pc = "start"
    /\ exit_code = Running
    /\ error = ""

\* args.output.parent / "dast-input.json"
input_path == "reports/dast-input.json"

\* open(path, "w"); json.dump(content)
Write(path, content) == (path :> content) @@ out

\* findings = parse_zap_report(...); findings.extend(parse_nuclei_report(...))
EvaluatorParse ==
    /\ entry = "risk-evaluator"
    /\ pc = "start"
    /\ LET zap == parse_zap_report(env.zap_report)
           nuclei == parse_nuclei_report(env.nuclei_report)
       IN  IF zap.exc # ""
             THEN Finish(1, zap.exc) /\ mem' = mem
           ELSE IF nuclei.exc # ""
             THEN Finish(1, nuclei.exc) /\ mem' = mem
           ELSE /\ mem' = [findings |-> zap.value \o nuclei.value]
                /\ pc' = "parsed"
                /\ UNCHANGED <<exit_code, error>>
    /\ UNCHANGED <<entry, args, env, out>>

\* the input payload is written beside the output
EvaluatorWriteInput ==
    /\ entry = "risk-evaluator"
    /\ pc = "parsed"
    /\ out' = Write(input_path,
                    [app_name |-> args.app_name, findings |-> mem.findings])
    /\ pc' = "input_written"
    /\ UNCHANGED <<entry, args, env, mem, exit_code, error>>

\* if not policy_dir.is_dir(): raise SystemExit
EvaluatorCheckPolicyDir ==
    /\ entry = "risk-evaluator"
    /\ pc = "input_written"
    /\ IF ~env.policy_dir
         THEN Finish(1, "Policy directory does not exist")
         ELSE pc' = "policy_checked" /\ UNCHANGED <<exit_code, error>>
    /\ UNCHANGED <<entry, args, env, mem, out>>

\* ensure_opa_binary, then run_opa
EvaluatorRunOpa ==
    /\ entry = "risk-evaluator"
    /\ pc = "policy_checked"
    /\ LET opa_binary == ensure_opa_binary(env.opa)
           evaluation == run_opa(env.response)
       IN  IF opa_binary.exc # ""
             THEN Finish(1, opa_binary.exc) /\ mem' = mem
           ELSE IF evaluation.exc # ""
             THEN Finish(1, evaluation.exc) /\ mem' = mem
           ELSE /\ mem' = [findings |-> mem.findings, evaluation |-> evaluation.value]
                /\ pc' = "evaluated"
                /\ UNCHANGED <<exit_code, error>>
    /\ UNCHANGED <<entry, args, env, out>>

final_output(a, findings, evaluation) ==
    [app_name |-> a.app_name,
     status |-> DictGet(evaluation, "status", "FAIL"),
     risk_score |-> DictGet(evaluation, "risk_score", 0),
     severity_counts |-> DictGet(evaluation, "severity_counts", EmptyDict),
     total_findings |-> Len(findings),
     findings |-> findings,
     violations |-> DictGet(evaluation, "violations", << >>),
     recommendations |-> DictGet(evaluation, "recommendations", << >>),
     policy_reference |-> "policies/severity-rules.rego",
     analysis_time |-> "utcnow"]

\* the evaluation artifact is written
EvaluatorWriteOutput ==
    /\ entry = "risk-evaluator"
    /\ pc = "evaluated"
    /\ out' = Write(args.output, final_output(args, mem.findings, mem.evaluation))
    /\ Finish(0, "")
    /\ UNCHANGED <<entry, args, env, mem>>

NextRiskEvaluator ==
    \/ EvaluatorParse
    \/ EvaluatorWriteInput
    \/ EvaluatorCheckPolicyDir
    \/ EvaluatorRunOpa
    \/ EvaluatorWriteOutput

SpecRiskEvaluator == InitRiskEvaluator /\ [][NextRiskEvaluator]_vars

----------------------------------------------------------------------------
(* tuning-helper.py *)

flatten_finding(finding) ==
    LET source == Or(DictGet(finding, "scanner", PyNone),
                     DictGet(finding, "source", "Unknown"))
        rule == Or(Or(DictGet(finding, "rule_id", PyNone),
                      DictGet(finding, "template_id", PyNone)),
                   DictGet(finding, "name", PyNone))
    IN  [key |-> Str(source) \o ":" \o Str(rule),
         source |-> source,
         name |-> DictGet(finding, "name", "Unknown"),
         rule |-> rule,
         severity |-> DictGet(finding, "severity", "INFO"),
         location |-> Or(Or(DictGet(finding, "location", PyNone),
                            DictGet(finding, "matched_at", PyNone)),
                         "Unknown"),
         description |-> DictGet(finding, "description", "")]

flatten_findings(findings) ==
    [i \in 1..Len(findings) |-> flatten_finding(findings[i])]

\* the keys of a Counter, in insertion order
RECURSIVE CounterKeys(_, _)
CounterKeys(flattened, seen) ==
    IF flattened = << >> THEN << >>
    ELSE IF Head(flattened).key \in seen THEN CounterKeys(Tail(flattened), seen)
    ELSE <<Head(flattened).key>> \o
         CounterKeys(Tail(flattened), seen \cup {Head(flattened).key})

\* counter[key]
CounterCount(flattened, key) ==
    Cardinality({i \in 1..Len(flattened) : flattened[i].key = key})

\* (a variant that keeps the last finding seen with the key)
DetailsLast(flattened, key) ==
    flattened[CHOOSE i \in 1..Len(flattened) :
                 /\ flattened[i].key = key
                 /\ \A j \in (i + 1)..Len(flattened) : flattened[j].key # key]

\* details[key]: setdefault keeps the first finding seen with the key
Details(flattened, key) ==
    flattened[CHOOSE i \in 1..Len(flattened) :
                 /\ flattened[i].key = key
                 /\ \A j \in 1..(i - 1) : flattened[j].key # key]

\* sorted(counter.items(), key=count, reverse=True): the sort is stable, so
\* among equal counts the key inserted first comes first
RECURSIVE SortedByCount(_, _)
SortedByCount(flattened, keys) ==
    IF keys = << >> THEN << >>
    ELSE LET best == CHOOSE i \in 1..Len(keys) :
                        /\ \A j \in 1..Len(keys) :
                               CounterCount(flattened, keys[j]) <=
                               CounterCount(flattened, keys[i])
                        /\ \A j \in 1..(i - 1) :
                               CounterCount(flattened, keys[j]) <
                               CounterCount(flattened, keys[i])
             rest == [j \in 1..(Len(keys) - 1) |->
                         IF j < best THEN keys[j] ELSE keys[j + 1]]
         IN  <<keys[best]>> \o SortedByCount(flattened, rest)

\* Counter.most_common(n), n an int: heapq.nlargest(n, items, key=count)
most_common(flattened, n) ==
    LET sorted == SortedByCount(flattened, CounterKeys(flattened, {}))
    IN  IF n <= 0 THEN << >>
        ELSE IF n >= Len(sorted) THEN sorted
        ELSE SubSeq(sorted, 1, n)

summarize_findings(flattened, limit) ==
    LET top == most_common(flattened, limit)
    IN  [i \in 1..Len(top) |->
            LET record == Details(flattened, top[i])
            IN  [source |-> record.source,
                 rule |-> record.rule,
                 name |-> record.name,
                 count |-> CounterCount(flattened, top[i]),
                 severity |-> record.severity,
                 location |-> record.location,
                 description |-> record.description]]

\* (the texts are the code's, without the markdown backquotes)
build_suggestion(record) ==
    LET base == Str(record.source) \o " rule " \o Str(record.rule) \o " (" \o
                Str(record.name) \o ") triggered " \o ToString(record.count) \o
                " times at " \o Str(record.location) \o "."
        scanner == Lower(record.source)
    IN  IF scanner = "zap"
          THEN base \o " Consider adjusting configs/zap-config.conf (IGNORE/WARN/FAIL) or adding a suppression."
        ELSE IF scanner = "nuclei"
          THEN base \o " Refine configs/nuclei-templates.yaml to align template selection with this endpoint."
        ELSE base \o " Review whether this finding can be tuned or requires further investigation."

build_suggestions(top_findings) ==
    [i \in 1..Len(top_findings) |-> build_suggestion(top_findings[i])]

\* the lines "- x" for the strings of a list
Bullets(items) == [i \in 1..Len(items) |-> "- " \o items[i]]

\* the markdown text, as the list of lines that main joins with newlines
format_markdown(suggestions, evaluation, timestamp) ==
    <<"### Automated tuning guidance (generated " \o timestamp \o ")", "">>
    \o (IF suggestions # << >>
          THEN [i \in 1..Len(suggestions) |->
                   "- **" \o ToString(i) \o ".** " \o suggestions[i]]
          ELSE <<"- No recurring findings detected; keep the baseline config as-is.">>)
    \o (IF DictGet(evaluation, "violations", << >>) # << >>
          THEN <<"", "**Recent violations:**">> \o Bullets(evaluation.violations)
          ELSE << >>)
    \o (IF DictGet(evaluation, "recommendations", << >>) # << >>
          THEN <<"", "**Policy recommendations:**">> \o Bullets(evaluation.recommendations)
          ELSE << >>)

TuningFindings ==
    { [source |-> "ZAP", scanner |-> "ZAP", name |-> "Missing header",
       severity |-> "LOW", description |-> "", solution |-> "", instances |-> 1,
       location |-> "https://app/login", rule_id |-> "10021", confidence |-> "2"],
      [source |-> "ZAP", scanner |-> "ZAP", name |-> "Cookie flag",
       severity |-> "MEDIUM", description |-> "", solution |-> "", instances |-> 0,
       location |-> "Unknown", rule_id |-> PyNone, confidence |-> PyNone],
      [source |-> "Nuclei", scanner |-> "Nuclei", name |-> "Exposed panel",
       severity |-> "HIGH", description |-> "", solution |-> "Review and patch",
       matched_at |-> "https://app/admin", location |-> "https://app/admin",
       template_id |-> "exposed-panel"],
      [source |-> "ZAP", scanner |-> "ZAP", name |-> "Missing header (admin)",
       severity |-> "MEDIUM", description |-> "No CSP", solution |-> "",
       instances |-> 2, location |-> "https://app/admin", rule_id |-> "10021",
       confidence |-> "3"],
      [name |-> "Bare"] }

TuningEvaluations ==
    Partial([findings : SeqUpTo(TuningFindings, MaxFindings),
             violations : {<<"High findings present">>},
             recommendations : {<<"Fix X">>}])

InitTuningHelper ==
    /\ entry = "tuning-helper"
    /\ args \in [limit : (0 - 1)..MaxLimit, output : {"reports/tuning.md"},
                 json : {"reports/tuning.json"}]
    /\ env \in [input : {NoFile} \cup {File(d) : d \in TuningEvaluations},
                output_writable : BOOLEAN, json_writable : BOOLEAN]
    /\ mem = EmptyDict
    /\ out = EmptyDict
    /\ pc = "start"
    /\ exit_code = Running
    /\ error = ""

\* the evaluation is read and the two documents are built in memory
TuningCompute ==
    /\ entry = "tuning-helper"
    /\ pc = "start"
    /\ IF ~Exists(env.input)
         THEN Finish(1, "FileNotFoundError") /\ mem' = mem
         ELSE LET evaluation == Content(env.input)
                  findings == flatten_findings(DictGet(evaluation, "findings", << >>))
                  top_findings == summarize_findings(findings, args.limit)
                  suggestions == build_suggestions(top_findings)
                  timestamp == "utcnow"
              IN  /\ mem' = [markdown |-> format_markdown(suggestions, evaluation, timestamp),
                             summary_data |->
                                 [generated_at |-> timestamp,
                                  top_findings |-> top_findings,
                                  violations |-> DictGet(evaluation, "violations", << >>),
                                  recommendations |->
                                      DictGet(evaluation, "recommendations", << >>)]]
                  /\ pc' = "computed"
                  /\ UNCHANGED <<exit_code, error>>
    /\ UNCHANGED <<entry, args, env, out>>

\* with open(args.output, "w") as fh: fh.write(markdown)
TuningWriteMarkdown ==
    /\ entry = "tuning-helper"
    /\ pc = "computed"
    /\ IF ~env.output_writable
         THEN Finish(1, "OSError") /\ out' = out
         ELSE /\ out' = Write(args.output, mem.markdown)
              /\ pc' = "markdown_written"
              /\ UNCHANGED <<exit_code, error>>
    /\ UNCHANGED <<entry, args, env, mem>>

\* with open(args.json, "w") as fh: json.dump(summary_data, fh)
TuningWriteJson ==
    /\ entry = "tuning-helper"
    /\ pc = "markdown_written"
    /\ IF ~env.json_writable
         THEN Finish(1, "OSError") /\ out' = out
         ELSE /\ out' = Write(args.json, mem.summary_data)
              /\ Finish(0, "")
    /\ UNCHANGED <<entry, args, env, mem>>

NextTuningHelper ==
    \/ TuningCompute
    \/ TuningWriteMarkdown
    \/ TuningWriteJson

SpecTuningHelper == InitTuningHelper /\ [][NextTuningHelper]_vars

----------------------------------------------------------------------------
(* report-generator.py *)
(* A text of several lines is the sequence of the lines the code joins with *)
(* newlines; the texts are the code's, without the markdown backquotes.     *)

\* the section headers of TEMPLATE, in order
TemplateHeaders ==
    <<"## DAST Security Scan Report", "### Issue snapshot",
      "### What should happen now?", "### Critical / High findings in focus",
      "### Attack surface highlights", "### Recommended next steps",
      "### Automated tuning guidance", "### Artifacts">>

SEVERITY_MAP ==
    ("CRITICAL" :> 5) @@ ("HIGH" :> 4) @@ ("MEDIUM" :> 3) @@ ("LOW" :> 2) @@ ("INFO" :> 1)

SpotlightLimit == 5
TruncateAt == 150
medium_threshold == 3
AttackSurfaceLimit == 5

generate_status_badge(status) ==
    IF status = "PASS" THEN "**PASS** - No critical issues detected"
    ELSE IF status = "WARN" THEN "**WARN** - Review recommended"
    ELSE IF status = "FAIL" THEN "**FAIL** - Critical issues detected"
    ELSE "UNKNOWN STATUS"

\* the first sentence of the status narrative
StatusSentence(status, counts, risk_score) ==
    IF status = "FAIL"
      THEN IF {"CRITICAL", "HIGH"} \subseteq DOMAIN counts
             THEN Returned(ToString(counts["CRITICAL"]) \o " critical and " \o
                           ToString(counts["HIGH"]) \o
                           " high severity findings are blocking a merge (risk score " \o
                           ToString(risk_score) \o ").")
             ELSE Raised("KeyError")
    ELSE IF status = "WARN"
      THEN IF "MEDIUM" \in DOMAIN counts
             THEN Returned(ToString(counts["MEDIUM"]) \o
                           " medium severity findings triggered a WARN state (risk score " \o
                           ToString(risk_score) \o ").")
             ELSE Raised("KeyError")
    ELSE Returned("Status is PASS with risk score " \o ToString(risk_score) \o ".")

generate_status_message(data, storage_url, artifacts_url) ==
    LET policy_ref == DictGet(data, "policy_reference", "policies/severity-rules.rego")
        violations == DictGet(data, "violations", << >>)
        recommendations == DictGet(data, "recommendations", << >>)
        first == StatusSentence(data.status, data.severity_counts, data.risk_score)
        fragments ==
            <<first.value>>
            \o (IF violations # << >>
                  THEN <<"Violations: " \o Join(violations, ", ") \o ".">> ELSE << >>)
            \o (IF recommendations # << >>
                  THEN <<"Automatic guidance: " \o Join(recommendations, ", ") \o ".">>
                  ELSE << >>)
            \o <<"Consult reports/evaluation.json and " \o policy_ref \o
                 " for the underlying data, and adjust thresholds if needed.">>
            \o (IF Truthy(storage_url)
                  THEN <<"Reports are stored at " \o storage_url \o ".">>
                ELSE IF Truthy(artifacts_url)
                  THEN <<"Workflow artifacts are available at " \o artifacts_url \o ".">>
                ELSE << >>)
    IN  IF first.exc # "" THEN first ELSE Returned(Join(fragments, " "))

IsCriticalOrHigh(finding) == finding.severity \in {"CRITICAL", "HIGH"}

generate_critical_high_details(findings) ==
    LET critical_high == SelectSeq(findings, IsCriticalOrHigh)
        shown == IF Len(critical_high) <= SpotlightLimit THEN critical_high
                 ELSE SubSeq(critical_high, 1, SpotlightLimit)
    IN  IF critical_high = << >> THEN <<"_No critical or high severity findings._">>
        ELSE [i \in 1..Len(shown) |->
                 Join(<<"",
                        "**" \o ToString(i) \o ". [" \o shown[i].severity \o "] " \o
                            shown[i].name \o "**",
                        "- **Source:** " \o shown[i].source,
                        "- **Description:** " \o
                            Prefix(shown[i].description, TruncateAt) \o "...",
                        "- **Solution:** " \o
                            Prefix(shown[i].solution, TruncateAt) \o "...",
                        "">>, "\n")]
             \o (IF Len(critical_high) > SpotlightLimit
                   THEN <<"\n_... and " \o ToString(Len(critical_high) - SpotlightLimit) \o
                          " more. See full report in artifacts._">>
                   ELSE << >>)

\* the three bullets every recommendations section ends with
OperationalBullets ==
    <<"- Inspect reports/evaluation.json to understand which rule produced each recommendation.",
      "- Tune configs/zap-config.conf, configs/nuclei-templates.yaml, or policies/severity-rules.rego when findings are expected noise.",
      "- Harden the affected routes (request validation, auth checks, headers) and rerun the scan to collapse recurrent findings.">>

\* the bullets synthesized when the verdict carries no recommendation
GenericBullets(severity_counts, risk_score) ==
    (IF severity_counts["CRITICAL"] > 0 \/ severity_counts["HIGH"] > 0
       THEN <<"- Resolve the critical/high severity findings and rerun the scan to confirm they are gone.">>
       ELSE << >>)
    \o (IF severity_counts["MEDIUM"] > 0
          THEN <<"- Reduce the " \o ToString(severity_counts["MEDIUM"]) \o
                 " medium findings keeping the risk score above " \o
                 ToString(medium_threshold * 4) \o " (" \o ToString(risk_score) \o ").">>
          ELSE << >>)
    \o (IF SumValues(severity_counts) = 0
          THEN <<"- Keep scanning on every change to catch regressions early.">>
          ELSE << >>)

generate_recommendations(data) ==
    LET severity_counts == data.severity_counts
        recommendations == FromKeys(DictGet(data, "recommendations", << >>), {})
    IN  IF recommendations # << >>
          THEN Returned(Bullets(recommendations) \o OperationalBullets)
        ELSE IF ~({"CRITICAL", "HIGH", "MEDIUM"} \subseteq DOMAIN severity_counts)
          THEN Raised("KeyError")
        ELSE Returned(GenericBullets(severity_counts, data.risk_score)
                      \o OperationalBullets)

generate_artifact_summary(artifacts_url, storage_url) ==
    IF Truthy(storage_url)
      THEN LET base == RStripSlash(storage_url)
           IN  <<"- [Download ZAP JSON](" \o base \o "/zap-report.json)",
                 "- [Download ZAP HTML](" \o base \o "/zap-report.html)",
                 "- [Download Nuclei JSON](" \o base \o "/nuclei-report.json)",
                 "- [Download OPA evaluation](" \o base \o "/evaluation.json)">>
    ELSE IF Truthy(artifacts_url)
      THEN <<"- [Open the workflow artifacts page](" \o artifacts_url \o
             ") (select the bundle for the latest run)",
             "- ZAP report: zap-report.json, zap-report.html (on the artifacts page)",
             "- Nuclei report: nuclei-report.json",
             "- OPA evaluation: evaluation.json">>
    ELSE <<"- Full ZAP/Nuclei/evaluation artifacts are attached to the workflow run for deeper inspection.">>

severity_weight(severity) == DictGet(SEVERITY_MAP, Upper(severity), 0)

\* the key (location, severity) of the cluster a finding belongs to
ClusterKey(finding) ==
    <<DictGet(finding, "location", "Unknown"),
      Upper(DictGet(finding, "severity", "INFO"))>>

\* the keys of the clusters dict, in insertion order
RECURSIVE ClusterKeys(_, _)
ClusterKeys(findings, seen) ==
    IF findings = << >> THEN << >>
    ELSE IF ClusterKey(Head(findings)) \in seen THEN ClusterKeys(Tail(findings), seen)
    ELSE <<ClusterKey(Head(findings))>> \o
         ClusterKeys(Tail(findings), seen \cup {ClusterKey(Head(findings))})

\* clusters[key]["count"]
ClusterCount(findings, key) ==
    Cardinality({i \in 1..Len(findings) : ClusterKey(findings[i]) = key})

\* clusters[key]["scanners"]
ClusterScanners(findings, key) ==
    {DictGet(findings[i], "source", DictGet(findings[i], "scanner", "Unknown")) :
        i \in {j \in 1..Len(findings) : ClusterKey(findings[j]) = key}}

\* sorted() of a set of scanner names: the names of the model, in string order
ScannerNames == <<"Nuclei", "Unknown", "ZAP">>
SortedScanners(S) == SelectSeq(ScannerNames, LAMBDA x : x \in S)

\* the sort key of a cluster, and the order of two sort keys (tuples)
ClusterRank(findings, key) ==
    <<severity_weight(key[2]) * ClusterCount(findings, key), ClusterCount(findings, key)>>
\* (a variant that compares the products only)
RankLessByProduct(a, b) == a[1] < b[1]
RankLess(a, b) == a[1] < b[1] \/ (a[1] = b[1] /\ a[2] < b[2])

\* sorted(clusters.items(), key=rank, reverse=True): the sort is stable, and
\* stays so with reverse=True: equal ranks keep their insertion order
RECURSIVE SortedClusters(_, _)
SortedClusters(findings, keys) ==
    IF keys = << >> THEN << >>
    ELSE LET best == CHOOSE i \in 1..Len(keys) :
                        /\ \A j \in 1..Len(keys) :
                               ~RankLess(ClusterRank(findings, keys[i]),
                                         ClusterRank(findings, keys[j]))
                        /\ \A j \in 1..(i - 1) :
                               RankLess(ClusterRank(findings, keys[j]),
                                        ClusterRank(findings, keys[i]))
             rest == [j \in 1..(Len(keys) - 1) |->
                         IF j < best THEN keys[j] ELSE keys[j + 1]]
         IN  <<keys[best]>> \o SortedClusters(findings, rest)

generate_attack_surface(findings, limit) ==
    LET sorted_clusters == SortedClusters(findings, ClusterKeys(findings, {}))
        top == SliceTo(sorted_clusters, limit)
        lines == [i \in 1..Len(top) |->
                     "- " \o top[i][1] \o " (" \o top[i][2] \o ") - " \o
                     ToString(ClusterCount(findings, top[i])) \o " findings from " \o
                     Join(SortedScanners(ClusterScanners(findings, top[i])), ", ") \o "."]
    IN  IF lines = << >> THEN <<"_No attack surface highlights available._">>
        ELSE lines

\* path is None or the path of a file that may not exist; the result is
\* << >> for None and <<dict>> for the document read
load_tuning_data(path, file) ==
    IF ~Truthy(path) THEN << >>
    ELSE IF ~Exists(file) THEN << >>
    ELSE file

generate_tuning_section(tuning_data) ==
    IF tuning_data = << >> \/ tuning_data[1] = EmptyDict
      THEN <<"- No automated tuning guidance is available yet.">>
    ELSE LET t == tuning_data[1]
             top == DictGet(t, "top_findings", << >>)
         IN  <<"Generated at " \o DictGet(t, "generated_at", "unknown")>>
             \o (IF top = << >> THEN <<"- No high-frequency findings to tune.">>
                 ELSE [i \in 1..Len(top) |->
                          "- **" \o ToString(i) \o ".** " \o Str(top[i].source) \o
                          " rule " \o Str(top[i].rule) \o " hit " \o
                          ToString(top[i].count) \o " times (severity " \o
                          top[i].severity \o ")."])
             \o (IF DictGet(t, "violations", << >>) # << >>
                   THEN <<"", "Violations:">> \o Bullets(t.violations) ELSE << >>)
             \o (IF DictGet(t, "recommendations", << >>) # << >>
                   THEN <<"", "Recommendations:">> \o Bullets(t.recommendations)
                   ELSE << >>)

\* TEMPLATE.format(...): the headers and the values that fill the template
render_report(data, a, tuning_data) ==
    LET counts == data.severity_counts
        status_message == generate_status_message(data, a.storage_url, a.artifacts_url)
        recommendations == generate_recommendations(data)
    IN  IF ~({"CRITICAL", "HIGH", "MEDIUM", "LOW", "INFO"} \subseteq DOMAIN counts)
          THEN Raised("KeyError")
        ELSE IF status_message.exc # "" THEN status_message
        ELSE IF recommendations.exc # "" THEN recommendations
        ELSE Returned(
            [headers |-> TemplateHeaders,
             app_name |-> data.app_name,
             status_badge |-> generate_status_badge(data.status),
             scan_date |-> "utcnow",
             risk_score |-> data.risk_score,
             critical |-> counts["CRITICAL"],
             high |-> counts["HIGH"],
             medium |-> counts["MEDIUM"],
             low |-> counts["LOW"],
             info |-> counts["INFO"],
             total |-> data.total_findings,
             status_message |-> status_message.value,
             critical_high_details |-> generate_critical_high_details(data.findings),
             attack_surface |-> generate_attack_surface(data.findings, AttackSurfaceLimit),
             recommendations |-> recommendations.value,
             tuning_section |-> generate_tuning_section(tuning_data),
             artifact_summary |-> generate_artifact_summary(a.artifacts_url, a.storage_url)])

\* the findings of the artifacts: what the normalizers give for some reports
ReportFindingLists ==
    { << >>,
      parse_zap_report(File([t |-> "json", v |-> ZapDocHigh])).value,
      parse_nuclei_report(
          File(<<JsonObject([info |-> [severity |-> "unknown"], host |-> "app"]),
                 JsonObject(("info" :> [severity |-> "critical"]) @@
                            ("matched-at" :> "https://app/login"))>>)).value
      \o parse_zap_report(File([t |-> "json", v |-> ZapDocHigh])).value }

\* the severity counts of the artifacts: those of the evaluator's verdicts,
\* and counts with other levels at zero and above
ReportSeverityCounts ==
    SeverityCounts \cup
    { [CRITICAL |-> 0, HIGH |-> 0, MEDIUM |-> 0, LOW |-> 0, INFO |-> 0],
      [CRITICAL |-> 1, HIGH |-> 0, MEDIUM |-> 2, LOW |-> 0, INFO |-> 0],
      [CRITICAL |-> 0, HIGH |-> 0, MEDIUM |-> 0, LOW |-> 1, INFO |-> 2] }

ReportVerdicts ==
    Partial([status : Statuses, risk_score : {MaxScore},
             severity_counts : ReportSeverityCounts,
             violations : {<<"High findings present">>},
             recommendations : {<<"Fix X", "Fix Y", "Fix X">>}])

\* the evaluation artifacts risk-evaluator writes
ReportArtifacts ==
    {final_output([app_name |-> "app"], f, v) :
        f \in ReportFindingLists, v \in ReportVerdicts}

\* the tuning artifacts tuning-helper writes
TuningArtifacts ==
    { EmptyDict,
      [generated_at |-> "utcnow", top_findings |-> << >>,
       violations |-> << >>, recommendations |-> << >>],
      [generated_at |-> "utcnow",
       top_findings |->
           summarize_findings(flatten_findings(
               parse_zap_report(File([t |-> "json", v |-> ZapDocHigh])).value), 3),
       violations |-> <<"High findings present">>,
       recommendations |-> <<"Fix X">>] }

InitReportGenerator ==
    /\ entry = "report-generator"
    /\ args \in [output : {"reports/report.md"},
                 artifacts_url : {PyNone, "https://ci/run/1"},
                 storage_url : {PyNone, "s3://bucket/run/"},
                 tuning_json : {PyNone, "reports/tuning.json"}]
    /\ env \in [input : {NoFile} \cup {File(d) : d \in ReportArtifacts},
                tuning : {NoFile} \cup {File(d) : d \in TuningArtifacts}]
    /\ mem = EmptyDict
    /\ out = EmptyDict
    /\ pc = "start"
    /\ exit_code = Running
    /\ error = ""

\* the inputs are read and the template is filled
ReportRender ==
    /\ entry = "report-generator"
    /\ pc = "start"
    /\ IF ~Exists(env.input)
         THEN Finish(1, "FileNotFoundError") /\ mem' = mem
         ELSE LET data == Content(env.input)
                  tuning_data == load_tuning_data(args.tuning_json, env.tuning)
                  report == render_report(data, args, tuning_data)
              IN  IF report.exc # ""
                    THEN Finish(1, report.exc) /\ mem' = mem
                    ELSE /\ mem' = [report |-> report.value]
                         /\ pc' = "rendered"
                         /\ UNCHANGED <<exit_code, error>>
    /\ UNCHANGED <<entry, args, env, out>>

\* with open(args.output, 'w') as f: f.write(report)
ReportWrite ==
    /\ entry = "report-generator"
    /\ pc = "rendered"
    /\ out' = Write(args.output, mem.report)
    /\ Finish(0, "")
    /\ UNCHANGED <<entry, args, env, mem>>

NextReportGenerator == ReportRender \/ ReportWrite

SpecReportGenerator == InitReportGenerator /\ [][NextReportGenerator]_vars

\* the findings generate_attack_surface is called with: findings as the
\* normalizers give them, a severity in lower case, and a finding with no
\* field but its name
AttackFindings ==
    { [source |-> "ZAP", scanner |-> "ZAP", name |-> "Missing header",
       severity |-> "HIGH", location |-> "https://app/login"],
      [source |-> "Nuclei", scanner |-> "Nuclei", name |-> "Exposed panel",
       severity |-> "high", location |-> "https://app/login"],
      [source |-> "ZAP", scanner |-> "ZAP", name |-> "Cookie flag",
       severity |-> "LOW", location |-> "https://app/admin"],
      [source |-> "Nuclei", scanner |-> "Nuclei", name |-> "Odd template",
       severity |-> "UNKNOWN", location |-> "https://app/admin"],
      [scanner |-> "Nuclei", name |-> "Odd template",
       severity |-> "unknown", location |-> "https://app/api"],
      [name |-> "Bare"] }

\* a report with more clusters than the default limit
ManyClusters ==
    <<[source |-> "ZAP", severity |-> "INFO", location |-> "https://app/a"],
      [source |-> "ZAP", severity |-> "LOW", location |-> "https://app/b"],
      [source |-> "ZAP", severity |-> "INFO", location |-> "https://app/c"],
      [source |-> "ZAP", severity |-> "MEDIUM", location |-> "https://app/d"],
      [source |-> "Nuclei", severity |-> "CRITICAL", location |-> "https://app/e"],
      [source |-> "Nuclei", severity |-> "INFO", location |-> "https://app/f"],
      [source |-> "Nuclei", severity |-> "INFO", location |-> "https://app/c"]>>

\* the values of limit: small ones and the default
AttackSurfaceLimits == {1, 2, AttackSurfaceLimit}

InitAttackSurface ==
    /\ entry = "generate_attack_surface"
    /\ args \in [limit : AttackSurfaceLimits]
    /\ env \in [findings : SeqUpTo(AttackFindings, MaxFindings) \cup {ManyClusters}]
    /\ mem = EmptyDict
    /\ out = EmptyDict
    /\ pc = "start"
    /\ exit_code = Running
    /\ error = ""

\* a call of generate_attack_surface
AttackSurfaceCall ==
    /\ entry = "generate_attack_surface"
    /\ pc = "start"
    /\ mem' = [lines |-> generate_attack_surface(env.findings, args.limit)]
    /\ Finish(0, "")
    /\ UNCHANGED <<entry, args, env, out>>

SpecAttackSurface == InitAttackSurface /\ [][AttackSurfaceCall]_vars

----------------------------------------------------------------------------

SpecRegressionGuard == InitRegressionGuard /\ [][RegressionGuardMain]_vars

SpecPolicyHealth == InitPolicyHealth /\ [][PolicyHealthMain]_vars

Init ==
    \/ InitRegressionGuard
    \/ InitPolicyHealth
    \/ InitNormalizers
    \/ InitRiskEvaluator
    \/ InitTuningHelper
    \/ InitReportGenerator
    \/ InitAttackSurface

Next ==
    \/ RegressionGuardMain
    \/ PolicyHealthMain
    \/ NextNormalizers
    \/ NextRiskEvaluator
    \/ NextTuningHelper
    \/ NextReportGenerator
    \/ AttackSurfaceCall

Spec == Init /\ [][Next]_vars

\* the five scripts, without the calls of single functions
InitScripts ==
    \/ InitRegressionGuard
    \/ InitPolicyHealth
    \/ InitRiskEvaluator
    \/ InitTuningHelper
    \/ InitReportGenerator

NextScripts ==
    \/ RegressionGuardMain
    \/ PolicyHealthMain
    \/ NextRiskEvaluator
    \/ NextTuningHelper
    \/ NextReportGenerator

SpecScripts == InitScripts /\ [][NextScripts]_vars

----------------------------------------------------------------------------
(* Claims *)

RiskScoreOf(file) ==
    IF "risk_score" \in DOMAIN Content(file) THEN Content(file).risk_score ELSE 0

\* C1: once the current evaluation is loaded, regression-guard ends with a
\* non-zero exit if and only if the previous evaluation file exists and
\* current.risk_score - previous.risk_score > threshold, a missing risk_score
\* counting as 0; with no previous file it ends successfully.
C1_RegressionFatalIffExceeds ==
    (entry = "regression-guard" /\ pc = "done" /\ Exists(env.current)) =>
        /\ (exit_code # 0) <=>
               /\ Exists(env.previous)
               /\ RiskScoreOf(env.current) - RiskScoreOf(env.previous) > args.threshold
        /\ ~Exists(env.previous) => exit_code = 0

\* a fatal run in which the previous evaluation carries no risk_score
C1_Witness ==
    /\ entry = "regression-guard"
    /\ pc = "done"
    /\ Exists(env.current)
    /\ Exists(env.previous)
    /\ "risk_score" \notin DOMAIN Content(env.previous)
    /\ exit_code = 1
    /\ error = "Risk score increased"

\* C2: regression-guard is never fatal when current - previous <= 0, for
\* every integer threshold.
C2_NeverFatalOnNonIncrease ==
    (/\ entry = "regression-guard"
     /\ pc = "done"
     /\ Exists(env.current)
     /\ Exists(env.previous)
     /\ RiskScoreOf(env.current) - RiskScoreOf(env.previous) <= 0)
        => exit_code = 0

\* the JSON object the policy service printed, when it printed one
PrintedDoc(response) ==
    IF response.returncode = 0 /\ response.stdout.t = "json"
      THEN <<response.stdout.v>> ELSE << >>

\* the chain result[0].expressions[0] of a printed object, when it is there
PrintedExpression(response) ==
    LET d == PrintedDoc(response) IN
    IF d = << >> THEN << >>
    ELSE IF "result" \notin DOMAIN d[1] THEN << >>
    ELSE IF d[1].result = << >> THEN << >>
    ELSE IF "expressions" \notin DOMAIN d[1].result[1] THEN << >>
    ELSE IF d[1].result[1].expressions = << >> THEN << >>
    ELSE <<d[1].result[1].expressions[1]>>

HasVerdict(response) ==
    /\ PrintedExpression(response) # << >>
    /\ "value" \in DOMAIN PrintedExpression(response)[1]

VerdictOf(response) == PrintedExpression(response)[1].value

HealthCallReturned ==
    /\ entry = "policy-health"
    /\ pc = "done"
    /\ env.policy_dir
    /\ env.input
    /\ env.opa # "none"
    /\ HasVerdict(env.response)

\* C3: given the policy directory, the canonical input and a returned verdict,
\* policy-health succeeds if and only if the returned status equals the
\* expected status and the returned risk_score (0 when absent) is <= max_risk;
\* otherwise it is fatal, and a status mismatch is reported before a risk
\* excess.
C3_DriftCheck ==
    HealthCallReturned =>
        LET v == VerdictOf(env.response)
            statusOk == "status" \in DOMAIN v /\ v.status = args.expected_status
            riskOk == ("risk_score" \in DOMAIN v) => v.risk_score <= args.max_risk
        IN  /\ exit_code = 0 <=> (statusOk /\ riskOk)
            /\ exit_code \in {0, 1}
            /\ ~statusOk => error = "Unexpected policy status"
            /\ (statusOk /\ ~riskOk) => error = "Risk score exceeded max allowed"

\* a run in which both the status and the risk are off: the status is reported
C3_Witness ==
    /\ HealthCallReturned
    /\ "status" \in DOMAIN VerdictOf(env.response)
    /\ VerdictOf(env.response).status # args.expected_status
    /\ "risk_score" \in DOMAIN VerdictOf(env.response)
    /\ VerdictOf(env.response).risk_score > args.max_risk
    /\ exit_code = 1
    /\ error = "Unexpected policy status"

FiveLevels == {"CRITICAL", "HIGH", "MEDIUM", "LOW", "INFO"}

ParserDone ==
    /\ entry \in {"parse_zap_report", "parse_nuclei_report"}
    /\ pc = "done"

\* C4: every Finding the normalizers produce has a severity among CRITICAL,
\* HIGH, MEDIUM, LOW, INFO, for every input severity string: a severity outside
\* the five levels is mapped to a default, neither passed through nor raising.
C4_SeverityAmongFiveLevels ==
    ParserDone =>
        /\ (entry = "parse_zap_report" /\ Exists(env.report)
                /\ Content(env.report).t = "json") => exit_code = 0
        /\ "findings" \in DOMAIN mem =>
               \A i \in 1..Len(mem.findings) : mem.findings[i].severity \in FiveLevels

\* the report is a file that holds no text
EmptyReport ==
    /\ Exists(env.report)
    /\ \/ entry = "parse_zap_report" /\ Content(env.report).t = "empty"
       \/ entry = "parse_nuclei_report" /\ Content(env.report) = << >>

\* C7: for both scanner formats, a report file that does not exist and a
\* report file that is empty give an empty finding list and no exception.
C7_MissingOrEmptyReportGivesNoFindings ==
    (ParserDone /\ (~Exists(env.report) \/ EmptyReport)) =>
        /\ exit_code = 0
        /\ "findings" \in DOMAIN mem
        /\ mem.findings = << >>

\* the entries of a template-scanner payload, as the claim states them: the
\* value of the whole payload if it is one JSON value (a list's elements, or
\* the single value), otherwise the values of the parseable lines, in order
RECURSIVE WithoutBlankEnds(_)
WithoutBlankEnds(ls) ==
    IF ls = << >> THEN ls
    ELSE IF ls[1].t = "blank" THEN WithoutBlankEnds(Tail(ls))
    ELSE IF ls[Len(ls)].t = "blank" THEN WithoutBlankEnds(SubSeq(ls, 1, Len(ls) - 1))
    ELSE ls

RECURSIVE ParseableLines(_)
ParseableLines(ls) ==
    IF ls = << >> THEN << >>
    ELSE IF ls[1].t \in {"blank", "garbage"} THEN ParseableLines(Tail(ls))
    ELSE <<ls[1]>> \o ParseableLines(Tail(ls))

RECURSIVE ObjectsOf(_)
ObjectsOf(values) ==
    IF values = << >> THEN << >>
    ELSE IF values[1].t = "dict" THEN <<values[1].dict>> \o ObjectsOf(Tail(values))
    ELSE ObjectsOf(Tail(values))

ClaimedEntries(ls) ==
    LET payload == WithoutBlankEnds(ls) IN
    IF Len(payload) = 1 /\ payload[1].t \notin {"blank", "garbage"}
      THEN IF payload[1].t = "list" THEN payload[1].list ELSE payload
      ELSE ParseableLines(ls)

ClaimedSeverity(object) ==
    IF "info" \in DOMAIN object /\ "severity" \in DOMAIN object.info
      THEN Upper(object.info.severity) ELSE "INFO"

NucleiParsed ==
    /\ entry = "parse_nuclei_report"
    /\ pc = "done"
    /\ Exists(env.report)
    /\ WithoutBlankEnds(Content(env.report)) # << >>

\* the findings are one per object entry, in the order of the entries
OnePerObjectInOrder ==
    LET objects == ObjectsOf(ClaimedEntries(Content(env.report)))
    IN  /\ "findings" \in DOMAIN mem
        /\ Len(mem.findings) = Len(objects)
        /\ \A i \in 1..Len(objects) :
               /\ mem.findings[i].severity = ClaimedSeverity(objects[i])
               /\ mem.findings[i].matched_at =
                      (IF "matched-at" \in DOMAIN objects[i]
                         THEN objects[i]["matched-at"] ELSE "")

\* C8: parse_nuclei_report takes the whole payload if it parses as JSON (a
\* list's elements, or the single value) and otherwise the parseable lines,
\* skipping the others; every entry that is a JSON object yields exactly one
\* Finding, in order, so the findings are as many as the object entries.
C8_OneFindingPerObjectEntry ==
    NucleiParsed => (exit_code = 0 /\ OnePerObjectInOrder)

\* C5: in every evaluation artifact risk-evaluator writes, severity_counts
\* holds all five keys CRITICAL, HIGH, MEDIUM, LOW, INFO, a key the policy
\* response does not supply being present with value 0.
C5_ArtifactCountsHoldFiveKeys ==
    (entry = "risk-evaluator" /\ args.output \in DOMAIN out) =>
        LET counts == out[args.output].severity_counts
            answered == IF "severity_counts" \in DOMAIN mem.evaluation
                          THEN mem.evaluation.severity_counts ELSE << >>
        IN  /\ FiveLevels \subseteq DOMAIN counts
            /\ \A k \in FiveLevels \ DOMAIN answered : counts[k] = 0

\* the script got as far as calling run_opa, and the service printed an object
PolicyServiceAnswered ==
    /\ pc = "done"
    /\ \/ /\ entry = "policy-health"
          /\ env.input
       \/ /\ entry = "risk-evaluator"
          /\ input_path \in DOMAIN out
    /\ env.policy_dir
    /\ env.opa # "none"
    /\ PrintedDoc(env.response) # << >>

\* the first layer of {"result": [{"expressions": [{"value": ...}]}]} that the
\* printed object lacks
MissingLayer(response) ==
    LET d == PrintedDoc(response)[1] IN
    IF "result" \notin DOMAIN d \/ d.result = << >> THEN "result"
    ELSE IF "expressions" \notin DOMAIN d.result[1] \/ d.result[1].expressions = << >>
      THEN "expressions"
    ELSE IF "value" \notin DOMAIN d.result[1].expressions[1] THEN "value"
    ELSE "none"

\* C6: a policy-service response with a missing layer makes run_opa raise, with
\* an error of its own for each layer (no result, no expressions, no value);
\* run_opa returns no verdict for a response that lacks 'value'.
C6_MissingLayerIsFatal ==
    (PolicyServiceAnswered /\ MissingLayer(env.response) # "none") =>
        /\ exit_code # 0
        /\ "evaluation" \notin DOMAIN mem
        /\ MissingLayer(env.response) = "result" =>
               error = "RuntimeError: OPA did not return an evaluation result"
        /\ MissingLayer(env.response) = "expressions" =>
               error = "RuntimeError: OPA response is missing expressions"
        /\ MissingLayer(env.response) = "value" =>
               error \notin {"", "RuntimeError: OPA did not return an evaluation result",
                             "RuntimeError: OPA response is missing expressions"}

\* C9: no partial success: a run that ends in a fatal condition has written no
\* output file (risk-evaluator that aborts on the policy directory or on the
\* policy call has written neither the artifact nor dast-input.json), and
\* tuning-helper never leaves its markdown written without its JSON.
C9_NoPartialSuccess ==
    /\ (pc = "done" /\ exit_code # 0) => DOMAIN out = {}
    /\ (entry = "tuning-helper" /\ pc = "done" /\ args.output \in DOMAIN out)
           => args.json \in DOMAIN out

\* C10: report rendering is total: for every evaluation artifact, whatever its
\* status and findings, with or without storage URL, artifacts URL and tuning
\* data (also a tuning path that does not exist), report-generator raises no
\* error and writes a document with all the fixed section headers, each
\* absent optional input giving its placeholder text.
C10_RenderingIsTotal ==
    (entry = "report-generator" /\ pc = "done" /\ Exists(env.input)) =>
        /\ exit_code = 0
        /\ args.output \in DOMAIN out
        /\ LET report == out[args.output]
               data == Content(env.input)
           IN  /\ report.headers =
                      <<"## DAST Security Scan Report", "### Issue snapshot",
                        "### What should happen now?",
                        "### Critical / High findings in focus",
                        "### Attack surface highlights", "### Recommended next steps",
                        "### Automated tuning guidance", "### Artifacts">>
               /\ data.findings = << >> =>
                      /\ report.critical_high_details =
                             <<"_No critical or high severity findings._">>
                      /\ report.attack_surface =
                             <<"_No attack surface highlights available._">>
               /\ (args.tuning_json = PyNone \/ ~Exists(env.tuning)) =>
                      report.tuning_section =
                          <<"- No automated tuning guidance is available yet.">>
               /\ (args.storage_url = PyNone /\ args.artifacts_url = PyNone) =>
                      report.artifact_summary =
                          <<"- Full ZAP/Nuclei/evaluation artifacts are attached to the workflow run for deeper inspection.">>

\* the group of a finding: its location and its severity in upper case
ClaimedGroup(finding) ==
    <<DictGet(finding, "location", "Unknown"),
      Upper(DictGet(finding, "severity", "INFO"))>>

GroupsOf(findings) == {ClaimedGroup(findings[i]) : i \in 1..Len(findings)}

GroupCount(findings, g) ==
    Cardinality({i \in 1..Len(findings) : ClaimedGroup(findings[i]) = g})

\* the index of the first finding of a group
GroupFirstSeen(findings, g) ==
    CHOOSE i \in 1..Len(findings) :
        /\ ClaimedGroup(findings[i]) = g
        /\ \A j \in 1..(i - 1) : ClaimedGroup(findings[j]) # g

ClaimedWeight(severity) ==
    CASE severity = "CRITICAL" -> 5
      [] severity = "HIGH" -> 4
      [] severity = "MEDIUM" -> 3
      [] severity = "LOW" -> 2
      [] severity = "INFO" -> 1
      [] OTHER -> 0

GroupProduct(findings, g) == ClaimedWeight(g[2]) * GroupCount(findings, g)

\* group a comes before group b in the ranking
GroupPrecedes(findings, a, b) ==
    \/ GroupProduct(findings, a) > GroupProduct(findings, b)
    \/ /\ GroupProduct(findings, a) = GroupProduct(findings, b)
       /\ GroupCount(findings, a) > GroupCount(findings, b)
    \/ /\ GroupProduct(findings, a) = GroupProduct(findings, b)
       /\ GroupCount(findings, a) = GroupCount(findings, b)
       /\ GroupFirstSeen(findings, a) < GroupFirstSeen(findings, b)

\* the groups in ranking order
ClaimedRanking(findings) ==
    [i \in 1..Cardinality(GroupsOf(findings)) |->
        CHOOSE g \in GroupsOf(findings) :
            Cardinality({h \in GroupsOf(findings) : GroupPrecedes(findings, h, g)}) = i - 1]

\* the line emitted for a group
GroupLine(findings, g) ==
    "- " \o g[1] \o " (" \o g[2] \o ") - " \o ToString(GroupCount(findings, g)) \o
    " findings from " \o Join(SortedScanners(ClusterScanners(findings, g)), ", ") \o "."

RECURSIVE SumOfCounts(_, _)
SumOfCounts(findings, keys) ==
    IF keys = << >> THEN 0
    ELSE ClusterCount(findings, Head(keys)) + SumOfCounts(findings, Tail(keys))

AttackSurfaceReturned == entry = "generate_attack_surface" /\ pc = "done"

\* C11: generate_attack_surface groups the findings by (location, upper-cased
\* severity) and emits the lines of the first K groups of the ranking by
\* weight * count descending, then count descending, then first-seen order
\* (weights CRITICAL 5, HIGH 4, MEDIUM 3, LOW 2, INFO 1, any other 0); the
\* counts of the clusters sum to the number of findings, and no findings
\* give the no-highlights marker.
C11_AttackSurfaceRanking ==
    AttackSurfaceReturned =>
        LET findings == env.findings
            ranking == ClaimedRanking(findings)
            K == IF args.limit < Len(ranking) THEN args.limit ELSE Len(ranking)
        IN  /\ exit_code = 0
            /\ findings = << >> =>
                   mem.lines = <<"_No attack surface highlights available._">>
            /\ findings # << >> =>
                   mem.lines = [i \in 1..K |-> GroupLine(findings, ranking[i])]
            /\ SumOfCounts(findings, ClusterKeys(findings, {})) = Len(findings)

\* a group seen later is emitted first because, at equal products, it has
\* more findings, and the groups beyond the limit are left out
C11_Witness ==
    /\ AttackSurfaceReturned
    /\ Cardinality(GroupsOf(env.findings)) > args.limit
    /\ \E g, h \in GroupsOf(env.findings) :
           /\ GroupFirstSeen(env.findings, h) < GroupFirstSeen(env.findings, g)
           /\ GroupProduct(env.findings, g) = GroupProduct(env.findings, h)
           /\ GroupCount(env.findings, g) > GroupCount(env.findings, h)
           /\ mem.lines = <<GroupLine(env.findings, g)>>

\* the key of a recurring issue: the scanner and the rule, template or name
IssueKey(finding) ==
    <<Or(DictGet(finding, "scanner", PyNone), DictGet(finding, "source", "Unknown")),
      Or(Or(DictGet(finding, "rule_id", PyNone), DictGet(finding, "template_id", PyNone)),
         DictGet(finding, "name", PyNone))>>

IssueKeys(findings) == {IssueKey(findings[i]) : i \in 1..Len(findings)}

IssueCount(findings, k) ==
    Cardinality({i \in 1..Len(findings) : IssueKey(findings[i]) = k})

\* the index of the first finding with a key
IssueFirstSeen(findings, k) ==
    CHOOSE i \in 1..Len(findings) :
        /\ IssueKey(findings[i]) = k
        /\ \A j \in 1..(i - 1) : IssueKey(findings[j]) # k

\* key a comes before key b: more occurrences, or as many and seen first
IssuePrecedes(findings, a, b) ==
    \/ IssueCount(findings, a) > IssueCount(findings, b)
    \/ /\ IssueCount(findings, a) = IssueCount(findings, b)
       /\ IssueFirstSeen(findings, a) < IssueFirstSeen(findings, b)

\* the keys by occurrence count descending, ties in first-seen order
IssueRanking(findings) ==
    [i \in 1..Cardinality(IssueKeys(findings)) |->
        CHOOSE k \in IssueKeys(findings) :
            Cardinality({h \in IssueKeys(findings) : IssuePrecedes(findings, h, k)}) = i - 1]

\* the record of a key: its count, and the fields of its first finding
IssueRecord(findings, k) ==
    LET first == findings[IssueFirstSeen(findings, k)]
    IN  [source |-> k[1],
         rule |-> k[2],
         name |-> DictGet(first, "name", "Unknown"),
         count |-> IssueCount(findings, k),
         severity |-> DictGet(first, "severity", "INFO"),
         location |-> Or(Or(DictGet(first, "location", PyNone),
                            DictGet(first, "matched_at", PyNone)), "Unknown"),
         description |-> DictGet(first, "description", "")]

TuningComputed == entry = "tuning-helper" /\ "summary_data" \in DOMAIN mem

TuningInput == DictGet(Content(env.input), "findings", << >>)

\* C12: flatten_findings followed by summarize_findings with limit N gives
\* min(N, number of distinct keys) records (none when N <= 0), by occurrence
\* count descending with ties in first-seen order; the count of a record is
\* the number of findings with its (scanner, rule-or-template-or-name) key,
\* its other fields are those of the first finding with the key, and the same
\* input gives the same ordered result again.
C12_RecurringIssues ==
    TuningComputed =>
        LET findings == TuningInput
            ranking == IssueRanking(findings)
            N == IF args.limit <= 0 THEN 0
                 ELSE IF args.limit < Len(ranking) THEN args.limit
                 ELSE Len(ranking)
            top_findings == mem.summary_data.top_findings
        IN  /\ top_findings = [i \in 1..N |-> IssueRecord(findings, ranking[i])]
            /\ summarize_findings(flatten_findings(findings), args.limit) = top_findings

\* two findings share a key and differ in severity, the record carries the
\* count of both and the severity of the first, and a key is left out by the
\* limit
C12_Witness ==
    /\ TuningComputed
    /\ args.limit >= 1
    /\ Len(mem.summary_data.top_findings) = args.limit
    /\ args.limit < Cardinality(IssueKeys(TuningInput))
    /\ \E i, j \in 1..Len(TuningInput) :
           /\ i < j
           /\ IssueKey(TuningInput[i]) = IssueKey(TuningInput[j])
           /\ DictGet(TuningInput[i], "severity", "INFO") #
                  DictGet(TuningInput[j], "severity", "INFO")
           /\ IssueFirstSeen(TuningInput, IssueKey(TuningInput[i])) = i
           /\ mem.summary_data.top_findings[1].count = 2
           /\ mem.summary_data.top_findings[1].severity =
                  DictGet(TuningInput[i], "severity", "INFO")

ReportRendered == entry = "report-generator" /\ "report" \in DOMAIN mem

\* the three operational bullets: inspect the evaluation artifact, tune the
\* scanner and policy configuration, harden the affected routes
FixedBullets ==
    <<"- Inspect reports/evaluation.json to understand which rule produced each recommendation.",
      "- Tune configs/zap-config.conf, configs/nuclei-templates.yaml, or policies/severity-rules.rego when findings are expected noise.",
      "- Harden the affected routes (request validation, auth checks, headers) and rerun the scan to collapse recurrent findings.">>

\* the index of the first occurrence of an item of a list
FirstIndex(items, x) ==
    CHOOSE i \in 1..Len(items) :
        items[i] = x /\ \A j \in 1..(i - 1) : items[j] # x

\* the bullets are those of the distinct items, one each, in first-seen order
DistinctInOrder(bullets, items) ==
    /\ Len(bullets) = Cardinality({items[i] : i \in 1..Len(items)})
    /\ \A i \in 1..Len(items) :
           Cardinality({j \in 1..Len(bullets) : bullets[j] = "- " \o items[i]}) = 1
    /\ \A j \in 1..Len(bullets) : \E i \in 1..Len(items) :
           /\ bullets[j] = "- " \o items[i]
           /\ \A k \in 1..(j - 1) : \E h \in 1..Len(items) :
                  /\ bullets[k] = "- " \o items[h]
                  /\ FirstIndex(items, items[h]) < FirstIndex(items, items[i])

\* the generic bullets for the severity counts that are not zero
ChosenByCounts(bullets, counts, risk_score) ==
    bullets =
        (IF counts["CRITICAL"] > 0 \/ counts["HIGH"] > 0
           THEN <<"- Resolve the critical/high severity findings and rerun the scan to confirm they are gone.">>
           ELSE << >>)
        \o (IF counts["MEDIUM"] > 0
              THEN <<"- Reduce the " \o ToString(counts["MEDIUM"]) \o
                     " medium findings keeping the risk score above 12 (" \o
                     ToString(risk_score) \o ").">>
              ELSE << >>)
        \o (IF \A level \in DOMAIN counts : counts[level] = 0
              THEN <<"- Keep scanning on every change to catch regressions early.">>
              ELSE << >>)

\* C13: in the recommendations section of a rendered report, the
\* recommendations of the verdict, when there are some, appear as one bullet
\* per distinct string in first-seen order and no generic bullet is added;
\* when there are none the generic bullets are chosen by the severity counts
\* that are not zero; in both cases the three fixed operational bullets are
\* the last three bullets.
C13_RecommendationsSection ==
    ReportRendered =>
        LET data == Content(env.input)
            section == mem.report.recommendations
            given == DictGet(data, "recommendations", << >>)
        IN  /\ Len(section) >= 3
            /\ SubSeq(section, Len(section) - 2, Len(section)) = FixedBullets
            /\ LET body == SubSeq(section, 1, Len(section) - 3)
               IN  IF given # << >>
                     THEN DistinctInOrder(body, given)
                     ELSE ChosenByCounts(body, data.severity_counts, data.risk_score)

\* the verdict recommends Fix X, Fix Y, Fix X and the section holds Fix X,
\* then Fix Y, then the three fixed bullets
C13_Witness ==
    /\ ReportRendered
    /\ DictGet(Content(env.input), "recommendations", << >>) = <<"Fix X", "Fix Y", "Fix X">>
    /\ mem.report.recommendations = <<"- Fix X", "- Fix Y">> \o FixedBullets

\* the narrative states that the status is PASS
SaysPass(text) == Len(text) >= 14 /\ SubSeq(text, 1, 14) = "Status is PASS"

\* C14: the badge and the narrative of a rendered report agree on the status:
\* the narrative states PASS only when the status is PASS, and for a status
\* outside PASS, WARN and FAIL, whose badge is UNKNOWN STATUS, the narrative
\* does not say that the status is PASS.
C14_BadgeAndNarrativeAgree ==
    ReportRendered =>
        /\ SaysPass(mem.report.status_message) => Content(env.input).status = "PASS"
        /\ mem.report.status_badge = "UNKNOWN STATUS" => ~SaysPass(mem.report.status_message)

====
